---- MODULE Spec2Model ----
(***************************************************************************)
(* Model of caf::mixin::sender (libcaf_core/caf/mixin/sender.hpp): the     *)
(* send function family of an actor, the compile-time type_check it runs,  *)
(* and the collaborators it hands messages to (an actor's mailbox through  *)
(* eq_impl, the actor clock through schedule_message).                     *)
(***************************************************************************)
EXTENDS Integers, Sequences, FiniteSets, TLC

\* ---------------------------------------------------------------- bounds

\* Number of send-family calls a behaviour of Spec may issue.
MaxCalls == 2
\* Number of call sites a behaviour of SpecSites compiles and runs.
MaxSites == 1
\* The clock runs from 0 to MaxTime.
MaxTime == 2
\* Relative timeouts handed to delayed_send range over 0 .. MaxDelay.
MaxDelay == 1

\* ------------------------------------------------------------- the world

Null == "null"
None == "none"

\* One dynamically typed actor and two statically typed actors.
Actors == {"d1", "t1", "t2"}

\* Message shapes (the type list of a payload, after strip_and_convert).
Shapes == {"ping", "pong", "put"}

\* message_priority
Priorities == {"normal", "high"}

\* A signature descriptor: none_t for a dynamically typed actor, otherwise the
\* finite set of (input shape -> reply shape) entries.
none_t == [dynamic |-> TRUE, sigs |-> {}]

typed(sigs) == [dynamic |-> FALSE, sigs |-> sigs]

\* The declared interface of each actor type.
SignaturesOfActor(a) ==
  CASE a = "t1" -> typed({[in |-> "ping", out |-> "pong"], [in |-> "put", out |-> "void"]})
    [] a = "t2" -> typed({[in |-> "pong", out |-> "void"], [in |-> "ping", out |-> "pong"]})
    [] OTHER -> none_t

\* One group.
Groups == {"g1"}

\* Handle types a caller may name as Dest, and what each can refer to: the
\* handles of actors (strong ones, and the address-only actor_addr) and group.
HandleTypes == {"actor", "typed_t1", "typed_t2", "strong_actor_ptr", "actor_addr", "group"}

Referents(ht) ==
  CASE ht = "actor" -> {"d1"}
    [] ht = "typed_t1" -> {"t1"}
    [] ht = "typed_t2" -> {"t2"}
    [] ht = "group" -> Groups
    [] ht = "actor_addr" -> {"t1"}
    [] OTHER -> Actors

Handles == UNION {[type : {ht}, ptr : Referents(ht) \cup {Null}] : ht \in HandleTypes}

ActorHandles == {h \in Handles : h.type # "group"}

GroupHandles == {h \in Handles : h.type = "group"}

\* signatures_of_t<T> of a handle type (Dest) and of an actor type (Subtype).
signatures_of_handle(ht) ==
  CASE ht = "typed_t1" -> SignaturesOfActor("t1")
    [] ht = "typed_t2" -> SignaturesOfActor("t2")
    [] OTHER -> none_t

\* statically_typed<T>()
statically_typed(sigs) == ~sigs.dynamic

\* ------------------------------------------------------ protocol validator

\* response_type_unbox<Sigs, Args>: whether Sigs has an entry for the input
\* shape, and the reply shape of that entry. A dynamically typed interface
\* accepts anything and replies with an untyped message.
response_type_unbox(sigs, shape) ==
  IF sigs.dynamic
    THEN [valid |-> TRUE, type |-> "message"]
    ELSE IF \E s \in sigs.sigs : s.in = shape
           THEN [valid |-> TRUE, type |-> (CHOOSE s \in sigs.sigs : s.in = shape).out]
           ELSE [valid |-> FALSE, type |-> "void"]

is_void_response(type) == type = "void"

\* The three static assertions of type_check, in source order.
DiagDynamicDest == "statically typed actors are only allowed to send() to other statically typed actors"
DiagNotAccepted == "receiver does not accept given message"
DiagResponse == "this actor does not accept the response message"

\* A validator without its first assertion.
type_check_typed_dest_omitted(subtype, dest) == TRUE

\* A validator that checks the reply against typed callers only.
type_check_response_strict(subtype, dest, args) ==
  LET rt == response_type_unbox(dest, args)
  IN  is_void_response(rt.type)
      \/ (statically_typed(subtype) /\ response_type_unbox(subtype, rt.type).valid)

\* A validator without its second, respectively third, assertion.
type_check_valid_omitted(subtype, dest, args) == TRUE

type_check_response_omitted(subtype, dest, args) == TRUE

type_check_typed_dest(subtype, dest) ==
  ~statically_typed(subtype) \/ statically_typed(dest)

type_check_valid(subtype, dest, args) ==
  response_type_unbox(dest, args).valid

type_check_response(subtype, dest, args) ==
  LET rt == response_type_unbox(dest, args)
  IN  is_void_response(rt.type) \/ response_type_unbox(subtype, rt.type).valid

\* The diagnostics type_check(dest, args_token) raises when instantiated for
\* Subtype; the call compiles iff the set is empty.
type_check(subtype, dest, args) ==
  (IF type_check_typed_dest(subtype, dest) THEN {} ELSE {DiagDynamicDest})
  \cup (IF type_check_valid(subtype, dest, args) THEN {} ELSE {DiagNotAccepted})
  \cup (IF type_check_response(subtype, dest, args) THEN {} ELSE {DiagResponse})

\* ------------------------------------------------------------------ state

VARIABLES
  now,      \* the actor clock's current time
  alive,    \* the actors that have not terminated
  inbox,    \* each actor's inbound queue of mailbox elements
  grouped,  \* per group: the messages handed to it for fan-out
  timer,    \* the clock's pending entries, in firing order
  frame,    \* per caller: the delayed_send it is inside of (after clock.now())
  ncalls,   \* send-family calls issued so far; a call's number identifies it
  limit,    \* how many calls the behaviour may issue
  last,     \* the most recent call (or rejected attempt to express one)
  status,   \* per call number: what became of the message
  doomed,   \* calls whose entry was pending when its destination terminated
  firedLog  \* the entries the dispatcher took out of the clock, in that order

vars == <<now, alive, inbox, grouped, timer, frame, ncalls, limit, last, status, doomed,
          firedLog>>

\* ------------------------------------------------------------ collaborators

\* make_message_id(P): a message id of priority P with no request correlation.
make_message_id(P) == [priority |-> P, request |-> FALSE]

no_stages == <<>>

\* make_mailbox_element(sender, id, stages, xs...)
make_mailbox_element(sender, mid, stages, xs) ==
  [sender |-> sender, mid |-> mid, stages |-> stages, payload |-> xs]

\* A mailbox element together with the bookkeeping the properties refer to:
\* the number of the call that made it, the operation, and the earliest time
\* the caller asked for.
Stamp(e, id, op, due) ==
  [sender |-> e.sender, mid |-> e.mid, stages |-> e.stages, payload |-> e.payload,
   id |-> id, op |-> op, due |-> due]

\* actor_cast<strong_actor_ptr>(dest)
actor_cast_strong(dest) == [type |-> "strong_actor_ptr", ptr |-> dest.ptr]

\* abstract_actor::enqueue: a single atomic append to the destination's inbound
\* queue; a terminated actor's mailbox is closed and the element is dropped.
enqueue(inb, ptr, e) ==
  IF ptr \in alive THEN [inb EXCEPT ![ptr] = Append(@, e)] ELSE inb

\* dest->eq_impl(mid, sender, ctx, xs...): build the element and enqueue it.
eq_impl(inb, ptr, mid, sender, xs, id, op) ==
  enqueue(inb, ptr, Stamp(make_mailbox_element(sender, mid, no_stages, xs), id, op, 0))

\* The clock keeps its entries ordered by fire time; an entry goes behind every
\* entry that fires no later than it does. seq numbers the insertions.
RECURSIVE insert_entry(_, _)
insert_entry(q, e) ==
  IF q = <<>> THEN <<e>>
  ELSE IF Head(q).time <= e.time THEN <<Head(q)>> \o insert_entry(Tail(q), e)
  ELSE <<e>> \o q

\* A clock that does not ask whether the destination still exists.
deliver_unchecked(entry) ==
  /\ inbox' = [inbox EXCEPT ![entry.dest.ptr] = Append(@, entry.env)]
  /\ status' = [status EXCEPT ![entry.env.id] = "fired"]
  /\ grouped' = grouped

\* A clock that drops what it should hand over and hands over what it should
\* drop.
deliver_inverted(entry) ==
  /\ grouped' = grouped
  /\ IF entry.dest.ptr \in alive
       THEN /\ inbox' = inbox
            /\ status' = [status EXCEPT ![entry.env.id] = "discarded"]
       ELSE /\ inbox' = inbox
            /\ status' = [status EXCEPT ![entry.env.id] = "fired"]

\* What the clock does with an entry whose time has come: hand the element to
\* the destination if it still exists, drop it otherwise; an entry for a group
\* goes to the group.
deliver(entry) ==
  IF entry.dest.type = "group"
    THEN /\ grouped' = [grouped EXCEPT ![entry.dest.ptr] = Append(@, entry.env)]
         /\ inbox' = inbox
         /\ status' = [status EXCEPT ![entry.env.id] = "fired"]
    ELSE /\ grouped' = grouped
         /\ IF entry.dest.ptr \in alive
              THEN /\ inbox' = enqueue(inbox, entry.dest.ptr, entry.env)
                   /\ status' = [status EXCEPT ![entry.env.id] = "fired"]
              ELSE /\ inbox' = inbox
                   /\ status' = [status EXCEPT ![entry.env.id] = "discarded"]

\* A clock that takes an entry and loses it.
schedule_message_lost(t, dest, e) ==
  /\ timer' = timer
  /\ status' = [status EXCEPT ![e.id] = "pending"]
  /\ inbox' = inbox
  /\ grouped' = grouped

\* actor_clock::schedule_message(t, receiver, content): immediately if t has
\* passed already, else as a pending entry.
schedule_message(t, dest, e) ==
  LET entry == [time |-> t, dest |-> dest, env |-> e,
                seq |-> Len(firedLog) + Len(timer) + 1]
  IN  IF t <= now
        THEN deliver(entry) /\ timer' = timer
        ELSE /\ timer' = insert_entry(timer, entry)
             /\ status' = [status EXCEPT ![e.id] = "pending"]
             /\ inbox' = inbox
             /\ grouped' = grouped

\* The content schedule_message(t, group, sender, message) keeps for a group:
\* the sender and the message; a group message has no priority of its own.
make_group_element(sender, xs) ==
  make_mailbox_element(sender, make_message_id("normal"), no_stages, xs)

\* caf::anon_send<P>(dest, xs...): the free function; it has no sender to
\* disclose. It yields the mailboxes and the groups' queues after the call.
caf_anon_send(inb, grp, dest, P, xs, id) ==
  LET e == Stamp(make_mailbox_element(None, make_message_id(P), no_stages, xs),
                 id, "anon_send", 0)
  IN  IF dest.ptr = Null THEN [inbox |-> inb, grouped |-> grp]
      ELSE IF dest.type = "group"
        THEN [inbox |-> inb, grouped |-> [grp EXCEPT ![dest.ptr] = Append(@, e)]]
        ELSE [inbox |-> enqueue(inb, dest.ptr, e), grouped |-> grp]

\* caf::delayed_anon_send<P>(dest, rtime, xs...): the free function, for an
\* actor handle and for a group.
caf_delayed_anon_send(dest, P, rtime, xs, id) ==
  IF dest.ptr # Null
    THEN schedule_message(now + rtime,
           IF dest.type = "group" THEN dest ELSE actor_cast_strong(dest),
           Stamp(make_mailbox_element(None, make_message_id(P), no_stages, xs),
                 id, "delayed_anon_send", now + rtime))
    ELSE /\ status' = [status EXCEPT ![id] = "noop"]
         /\ UNCHANGED <<inbox, timer, grouped>>

\* ------------------------------------------------------------- the sender

\* A sender that forgets who it is.
ctrl_none(self) == None

\* dptr()->ctrl(): the calling actor's own (strong) identity.
ctrl(self) == self

\* A sender that does not test the handle.
dest_unchecked(dest) == TRUE

\* `if (dest)`: the handle refers to an actor.
dest_nonnull(dest) == dest.ptr # Null

\* The priority anon_send hands to caf::anon_send: it names no template
\* argument, so the free function's default applies.
anon_send_priority(P) == "normal"

\* The priority delayed_anon_send hands to caf::delayed_anon_send<P>.
delayed_anon_send_priority(P) == P

\* A delayed_send that takes the relative timeout for a time point.
delayed_send_timeout_rel(t0, rel_timeout) == rel_timeout

\* The time point delayed_send schedules for: clock.now() + rel_timeout.
delayed_send_timeout(t0, rel_timeout) == t0 + rel_timeout

\* A scheduled_send that takes the time point for a relative timeout.
scheduled_send_timeout_rel(timeout) == now + timeout

\* The time point scheduled_send schedules for.
scheduled_send_timeout(timeout) == timeout

\* A sender that hands the clock the handle as the caller gave it.
receiver_as_given(dest) == dest

\* The receiver scheduled_send and delayed_send hand to the clock:
\* actor_cast<strong_actor_ptr>(dest).
receiver(dest) == actor_cast_strong(dest)

\* What a call site compiles to: the diagnostics of its static assertions.
DiagStrongPtr == "statically typed actors can only send() to other statically typed actors"

DiagGroup == "statically typed actors are not allowed to send to groups"

\* A group overload without its static assertion.
group_check_omitted(subtype) == {}

\* static_assert(!statically_typed<Subtype>(), ...) of the group overloads.
group_check(subtype) == IF statically_typed(subtype) THEN {DiagGroup} ELSE {}

\* The operations whose call sites carry static assertions.
Ops == {"send", "scheduled_send", "delayed_send"}

compile(op, self, ht, xs) ==
  CASE op \in {"scheduled_send", "delayed_send"} /\ ht = "group" ->
         group_check(SignaturesOfActor(self))
    [] op = "send" /\ ht = "strong_actor_ptr" ->
         IF statically_typed(SignaturesOfActor(self)) THEN {DiagStrongPtr} ELSE {}
    [] op \in Ops ->
         type_check(SignaturesOfActor(self), signatures_of_handle(ht), xs)
    [] OTHER -> {}

\* A caller can issue a call when it runs and is not inside another one.
CanCall(self) == self \in alive /\ frame[self] = {} /\ ncalls < limit

NoCall ==
  [id |-> 0, op |-> None, caller |-> None, dest |-> [type |-> "actor", ptr |-> Null],
   xs |-> None, P |-> "normal", timeout |-> 0, t0 |-> 0, live |-> FALSE, diags |-> {}]

Call(id, op, self, dest, xs, P, timeout, t0) ==
  [id |-> id, op |-> op, caller |-> self, dest |-> dest, xs |-> xs, P |-> P,
   timeout |-> timeout, t0 |-> t0, live |-> dest.ptr \in alive, diags |-> {}]

\* What became of a message handed over directly: enqueued, or dropped because
\* the destination had terminated.
Direct(dest) == IF dest.type = "group" \/ dest.ptr \in alive THEN "direct" ELSE "dropped"

\* send(dest, xs...) for a handle type Dest.
send(self, dest, P, xs) ==
  /\ CanCall(self)
  /\ dest.type \notin {"strong_actor_ptr", "group"}
  /\ compile("send", self, dest.type, xs) = {}
  /\ LET id == ncalls + 1
     IN  /\ IF dest_nonnull(dest)
              THEN /\ inbox' = eq_impl(inbox, dest.ptr, make_message_id(P), ctrl(self),
                                       xs, id, "send")
                   /\ status' = [status EXCEPT ![id] = Direct(dest)]
              ELSE /\ inbox' = inbox
                   /\ status' = [status EXCEPT ![id] = "noop"]
         /\ ncalls' = id
         /\ last' = Call(id, "send", self, dest, xs, P, 0, now)
  /\ UNCHANGED <<now, alive, timer, frame, limit, grouped, doomed, firedLog>>

\* send(const strong_actor_ptr& dest, xs...)
send_strong_actor_ptr(self, dest, P, xs) ==
  /\ CanCall(self)
  /\ dest.type = "strong_actor_ptr"
  /\ compile("send", self, dest.type, xs) = {}
  /\ LET id == ncalls + 1
     IN  /\ IF dest_nonnull(dest)
              THEN /\ inbox' = eq_impl(inbox, dest.ptr, make_message_id(P), ctrl(self),
                                       xs, id, "send")
                   /\ status' = [status EXCEPT ![id] = Direct(dest)]
              ELSE /\ inbox' = inbox
                   /\ status' = [status EXCEPT ![id] = "noop"]
         /\ ncalls' = id
         /\ last' = Call(id, "send", self, dest, xs, P, 0, now)
  /\ UNCHANGED <<now, alive, timer, frame, limit, grouped, doomed, firedLog>>

\* An anon_send that goes through the member send instead of the free function.
anon_send_as_send(self, dest, P, xs) ==
  /\ CanCall(self)
  /\ LET id == ncalls + 1
     IN  /\ inbox' = IF dest_nonnull(dest)
                       THEN eq_impl(inbox, dest.ptr, make_message_id(P), ctrl(self),
                                    xs, id, "anon_send")
                       ELSE inbox
         /\ status' = [status EXCEPT ![id] = IF dest.ptr # Null THEN Direct(dest) ELSE "noop"]
         /\ ncalls' = id
         /\ last' = Call(id, "anon_send", self, dest, xs, P, 0, now)
  /\ UNCHANGED <<now, alive, timer, frame, limit, grouped, doomed, firedLog>>

\* anon_send(dest, xs...) for any handle type, a group included.
anon_send(self, dest, P, xs) ==
  /\ CanCall(self)
  /\ LET id == ncalls + 1
         r == caf_anon_send(inbox, grouped, dest, anon_send_priority(P), xs, id)
     IN  /\ inbox' = r.inbox
         /\ grouped' = r.grouped
         /\ status' = [status EXCEPT ![id] = IF dest.ptr # Null THEN Direct(dest) ELSE "noop"]
         /\ ncalls' = id
         /\ last' = Call(id, "anon_send", self, dest, xs, P, 0, now)
  /\ UNCHANGED <<now, alive, timer, frame, limit, doomed, firedLog>>

\* scheduled_send(dest, timeout, xs...) for an actor handle.
scheduled_send(self, dest, timeout, P, xs) ==
  /\ CanCall(self)
  /\ dest.type # "group"
  /\ compile("scheduled_send", self, dest.type, xs) = {}
  /\ LET id == ncalls + 1
     IN  /\ IF dest_nonnull(dest)
              THEN schedule_message(scheduled_send_timeout(timeout), receiver(dest),
                     Stamp(make_mailbox_element(ctrl(self), make_message_id(P),
                                                no_stages, xs),
                           id, "scheduled_send", timeout))
              ELSE /\ status' = [status EXCEPT ![id] = "noop"]
                   /\ UNCHANGED <<inbox, timer, grouped>>
         /\ ncalls' = id
         /\ last' = Call(id, "scheduled_send", self, dest, xs, P, timeout, now)
  /\ UNCHANGED <<now, alive, frame, limit, doomed, firedLog>>

\* scheduled_send(const group& dest, timeout, xs...)
scheduled_send_group(self, dest, timeout, xs) ==
  /\ CanCall(self)
  /\ dest.type = "group"
  /\ compile("scheduled_send", self, dest.type, xs) = {}
  /\ LET id == ncalls + 1
     IN  /\ IF dest_nonnull(dest)
              THEN schedule_message(scheduled_send_timeout(timeout), dest,
                     Stamp(make_group_element(ctrl(self), xs),
                           id, "scheduled_send", timeout))
              ELSE /\ status' = [status EXCEPT ![id] = "noop"]
                   /\ UNCHANGED <<inbox, timer, grouped>>
         /\ ncalls' = id
         /\ last' = Call(id, "scheduled_send", self, dest, xs, "normal", timeout, now)
  /\ UNCHANGED <<now, alive, frame, limit, doomed, firedLog>>

\* A delayed_send that reports back before the clock has the entry.
delayed_send_returns_early(self, dest, rel_timeout, P, xs) ==
  /\ CanCall(self)
  /\ dest.type # "group"
  /\ compile("delayed_send", self, dest.type, xs) = {}
  /\ LET id == ncalls + 1
     IN  /\ ncalls' = id
         /\ last' = Call(id, "delayed_send", self, dest, xs, P, rel_timeout, now)
         /\ IF dest_nonnull(dest)
              THEN /\ frame' = [frame EXCEPT ![self] =
                        {[id |-> id, dest |-> dest, P |-> P, xs |-> xs,
                          rel |-> rel_timeout, t0 |-> now,
                          timeout |-> delayed_send_timeout(now, rel_timeout)]}]
                   /\ UNCHANGED status
              ELSE /\ status' = [status EXCEPT ![id] = "noop"]
                   /\ frame' = frame
  /\ UNCHANGED <<now, alive, inbox, timer, limit, grouped, doomed, firedLog>>

\* delayed_send(dest, rel_timeout, xs...) for an actor handle, up to and
\* including its read of clock.now().
delayed_send(self, dest, rel_timeout, P, xs) ==
  /\ CanCall(self)
  /\ dest.type # "group"
  /\ compile("delayed_send", self, dest.type, xs) = {}
  /\ LET id == ncalls + 1
     IN  /\ ncalls' = id
         /\ IF dest_nonnull(dest)
              THEN /\ frame' = [frame EXCEPT ![self] =
                        {[id |-> id, dest |-> dest, P |-> P, xs |-> xs,
                          rel |-> rel_timeout, t0 |-> now,
                          timeout |-> delayed_send_timeout(now, rel_timeout)]}]
                   /\ UNCHANGED <<last, status>>
              ELSE /\ status' = [status EXCEPT ![id] = "noop"]
                   /\ last' = Call(id, "delayed_send", self, dest, xs, P, rel_timeout, now)
                   /\ frame' = frame
  /\ UNCHANGED <<now, alive, inbox, timer, limit, grouped, doomed, firedLog>>

\* The rest of delayed_send: clock.schedule_message(timeout, ...).
delayed_send_schedule(self) ==
  /\ \E f \in frame[self] :
       /\ f.dest.type # "group"
       /\ schedule_message(f.timeout, receiver(f.dest),
             Stamp(make_mailbox_element(ctrl(self), make_message_id(f.P),
                                        no_stages, f.xs),
                   f.id, "delayed_send", f.t0 + f.rel))
       /\ last' = Call(f.id, "delayed_send", self, f.dest, f.xs, f.P, f.rel, f.t0)
  /\ frame' = [frame EXCEPT ![self] = {}]
  /\ UNCHANGED <<now, alive, ncalls, limit, doomed, firedLog>>

\* delayed_send(const group& dest, rtime, xs...) up to and including its read
\* of clock.now().
delayed_send_group(self, dest, rel_timeout, xs) ==
  /\ CanCall(self)
  /\ dest.type = "group"
  /\ compile("delayed_send", self, dest.type, xs) = {}
  /\ LET id == ncalls + 1
     IN  /\ ncalls' = id
         /\ IF dest_nonnull(dest)
              THEN /\ frame' = [frame EXCEPT ![self] =
                        {[id |-> id, dest |-> dest, P |-> "normal", xs |-> xs,
                          rel |-> rel_timeout, t0 |-> now,
                          timeout |-> delayed_send_timeout(now, rel_timeout)]}]
                   /\ UNCHANGED <<last, status>>
              ELSE /\ status' = [status EXCEPT ![id] = "noop"]
                   /\ last' = Call(id, "delayed_send", self, dest, xs, "normal",
                                   rel_timeout, now)
                   /\ frame' = frame
  /\ UNCHANGED <<now, alive, inbox, timer, limit, grouped, doomed, firedLog>>

\* The rest of the group overload: clock.schedule_message(timeout, dest, ...).
delayed_send_group_schedule(self) ==
  /\ \E f \in frame[self] :
       /\ f.dest.type = "group"
       /\ schedule_message(f.timeout, f.dest,
             Stamp(make_group_element(ctrl(self), f.xs),
                   f.id, "delayed_send", f.t0 + f.rel))
       /\ last' = Call(f.id, "delayed_send", self, f.dest, f.xs, "normal", f.rel, f.t0)
  /\ frame' = [frame EXCEPT ![self] = {}]
  /\ UNCHANGED <<now, alive, ncalls, limit, doomed, firedLog>>

\* delayed_anon_send(dest, rtime, xs...) for an actor handle.
delayed_anon_send(self, dest, rtime, P, xs) ==
  /\ CanCall(self)
  /\ dest.type # "group"
  /\ LET id == ncalls + 1
     IN  /\ caf_delayed_anon_send(dest, delayed_anon_send_priority(P), rtime, xs, id)
         /\ ncalls' = id
         /\ last' = Call(id, "delayed_anon_send", self, dest, xs, P, rtime, now)
  /\ UNCHANGED <<now, alive, frame, limit, doomed, firedLog>>

\* delayed_anon_send(const group& dest, rtime, xs...)
delayed_anon_send_group(self, dest, rtime, xs) ==
  /\ CanCall(self)
  /\ dest.type = "group"
  /\ LET id == ncalls + 1
     IN  /\ caf_delayed_anon_send(dest, "normal", rtime, xs, id)
         /\ ncalls' = id
         /\ last' = Call(id, "delayed_anon_send", self, dest, xs, "normal", rtime, now)
  /\ UNCHANGED <<now, alive, frame, limit, doomed, firedLog>>

\* A call site the compiler refuses: nothing runs.
rejected(self, op, ht, xs) ==
  /\ ncalls < limit
  /\ compile(op, self, ht, xs) # {}
  /\ ncalls' = ncalls + 1
  /\ last' = [NoCall EXCEPT !.id = ncalls + 1, !.op = op, !.caller = self,
                            !.dest = [type |-> ht, ptr |-> Null], !.xs = xs,
                            !.diags = compile(op, self, ht, xs)]
  /\ status' = [status EXCEPT ![ncalls + 1] = "rejected"]
  /\ UNCHANGED <<now, alive, inbox, timer, frame, limit, grouped, doomed, firedLog>>

\* ------------------------------------------------------------ environment

\* A dispatcher that leaves the entry it fired in place.
fire_keeps_entry ==
  /\ timer # <<>>
  /\ Head(timer).time <= now
  /\ deliver(Head(timer))
  /\ firedLog' = Append(firedLog, [id |-> Head(timer).env.id, due |-> Head(timer).env.due,
                                  seq |-> Head(timer).seq])
  /\ UNCHANGED <<now, alive, timer, frame, ncalls, limit, last, doomed>>

\* The clock's dispatcher: the first entry fires once its time has come.
fire ==
  /\ timer # <<>>
  /\ Head(timer).time <= now
  /\ deliver(Head(timer))
  /\ timer' = Tail(timer)
  /\ firedLog' = Append(firedLog, [id |-> Head(timer).env.id, due |-> Head(timer).env.due,
                                  seq |-> Head(timer).seq])
  /\ UNCHANGED <<now, alive, frame, ncalls, limit, last, doomed>>

\* Time passes.
tick ==
  /\ now < MaxTime
  /\ now' = now + 1
  /\ UNCHANGED <<alive, inbox, timer, frame, ncalls, limit, grouped, last, status, doomed, firedLog>>

\* An actor that did not exist yet is constructed. (Only for behaviours in
\* which no actor terminates, so that an actor outside alive is one that has
\* not been constructed.)
construct(a) ==
  /\ a \notin alive
  /\ alive' = alive \cup {a}
  /\ UNCHANGED <<now, inbox, timer, frame, ncalls, limit, grouped, last, status, doomed, firedLog>>

\* An actor terminates (never while it runs a send of its own).
terminate(a) ==
  /\ a \in alive
  /\ frame[a] = {}
  /\ alive' = alive \ {a}
  /\ doomed' = doomed \cup {timer[i].env.id : i \in {j \in DOMAIN timer : timer[j].dest.ptr = a}}
  /\ UNCHANGED <<now, inbox, timer, frame, ncalls, limit, grouped, last, status, firedLog>>

\* ---------------------------------------------------------- specification

InitOf(n, existing) ==
  /\ now = 0
  /\ alive = existing
  /\ inbox = [a \in Actors |-> <<>>]
  /\ grouped = [g \in Groups |-> <<>>]
  /\ timer = <<>>
  /\ frame = [a \in Actors |-> {}]
  /\ ncalls = 0
  /\ limit = n
  /\ last = NoCall
  /\ status = [i \in 1 .. n |-> "none"]
  /\ doomed = {}
  /\ firedLog = <<>>

InitWith(n) == InitOf(n, Actors)

\* Spec: two callers, a dynamically and a statically typed one, send one
\* message shape to the typed actor t1 while the clock runs, the dispatcher
\* fires and t1 may terminate.
Callers == {"d1", "t2"}

Dests == {h \in Handles : h.type = "typed_t1"}

StrongDests == {h \in Handles : h.type = "strong_actor_ptr" /\ h.ptr \in {"t1", Null}}

Init == InitWith(MaxCalls)

Next ==
  \/ \E self \in Callers, dest \in Dests : send(self, dest, "normal", "ping")
  \/ \E self \in Callers, dest \in StrongDests :
       send_strong_actor_ptr(self, dest, "normal", "ping")
  \/ \E self \in Callers, dest \in Dests : anon_send(self, dest, "normal", "ping")
  \/ \E self \in Callers, dest \in Dests, timeout \in 0 .. MaxTime :
       scheduled_send(self, dest, timeout, "normal", "ping")
  \/ \E self \in Callers, dest \in Dests, rel \in 0 .. MaxDelay :
       delayed_send(self, dest, rel, "normal", "ping")
  \/ \E self \in Callers : delayed_send_schedule(self)
  \/ fire
  \/ tick
  \/ terminate("t1")

Spec == Init /\ [][Next]_vars

\* SpecSites: every caller type, handle type, message shape and priority at a
\* call site, compiled and (when it compiles) run once, with the clock at rest.
InitSites == InitWith(MaxSites)

NextSites ==
  \/ \E self \in Actors, xs \in Shapes, dest \in ActorHandles, P \in Priorities :
       send(self, dest, P, xs)
  \/ \E self \in Actors, xs \in Shapes, dest \in ActorHandles, P \in Priorities :
       send_strong_actor_ptr(self, dest, P, xs)
  \/ \E self \in Actors, xs \in Shapes, dest \in Handles, P \in Priorities :
       anon_send(self, dest, P, xs)
  \/ \E self \in Actors, xs \in Shapes, dest \in ActorHandles, P \in Priorities :
       scheduled_send(self, dest, 1, P, xs)
  \/ \E self \in Actors, xs \in Shapes, dest \in GroupHandles :
       scheduled_send_group(self, dest, 1, xs)
  \/ \E self \in Actors, xs \in Shapes, dest \in ActorHandles, P \in Priorities :
       delayed_send(self, dest, 0, P, xs)
  \/ \E self \in Actors : delayed_send_schedule(self)
  \/ \E self \in Actors, xs \in Shapes, dest \in GroupHandles :
       delayed_send_group(self, dest, 0, xs)
  \/ \E self \in Actors : delayed_send_group_schedule(self)
  \/ \E self \in Actors, xs \in Shapes, dest \in ActorHandles, P \in Priorities :
       delayed_anon_send(self, dest, 1, P, xs)
  \/ \E self \in Actors, xs \in Shapes, dest \in GroupHandles :
       delayed_anon_send_group(self, dest, 1, xs)
  \/ \E self \in Actors, xs \in Shapes, op \in Ops, ht \in HandleTypes :
       rejected(self, op, ht, xs)

SpecSites == InitSites /\ [][NextSites]_vars

\* SpecLate: the typed actor t1 does not exist at first and is constructed at
\* some point; a caller's handle to it, typed or address-only, is null until
\* then and refers to it from then on. The callers delayed_send and
\* scheduled_send to it while the clock runs.
InitLate == InitOf(MaxCalls, Actors \ {"t1"})

LateDests == {h \in Handles : h.type \in {"typed_t1", "actor_addr"}}

HandleNow(dest) == IF "t1" \in alive THEN dest.ptr = "t1" ELSE dest.ptr = Null

NextLate ==
  \/ \E self \in Callers, dest \in LateDests, rel \in 0 .. MaxDelay :
       HandleNow(dest) /\ delayed_send(self, dest, rel, "normal", "ping")
  \/ \E self \in Callers : delayed_send_schedule(self)
  \/ \E self \in Callers, dest \in LateDests, timeout \in 0 .. MaxTime :
       HandleNow(dest) /\ scheduled_send(self, dest, timeout, "normal", "ping")
  \/ fire
  \/ tick
  \/ construct("t1")

SpecLate == InitLate /\ [][NextLate]_vars

\* SpecLive: one caller's timed sends toward t1, with fire times the clock
\* reaches and relative timeouts that may be negative, under fairness: the
\* clock keeps advancing, its dispatcher keeps running, and a caller inside
\* delayed_send gets to finish it.
LiveCallers == {"d1"}

NextLive ==
  \/ \E self \in LiveCallers, dest \in Dests, timeout \in 0 .. MaxTime :
       scheduled_send(self, dest, timeout, "normal", "ping")
  \/ \E self \in LiveCallers, dest \in Dests, rel \in -1 .. MaxDelay :
       now + rel <= MaxTime /\ delayed_send(self, dest, rel, "normal", "ping")
  \/ \E self \in LiveCallers : delayed_send_schedule(self)
  \/ fire
  \/ tick
  \/ terminate("t1")

SpecLive ==
  /\ Init /\ [][NextLive]_vars
  /\ WF_vars(fire) /\ WF_vars(tick)
  /\ \A self \in LiveCallers : WF_vars(delayed_send_schedule(self))

\* ------------------------------------------------------------- properties

\* Where the mailbox element of call number id is.
InboxHits(a, id) == {i \in DOMAIN inbox[a] : inbox[a][i].id = id}

TimerHits(id) == {i \in DOMAIN timer : timer[i].env.id = id}

RECURSIVE SumOver(_, _)
SumOver(S, id) ==
  IF S = {} THEN 0
  ELSE LET a == CHOOSE a \in S : TRUE
       IN  Cardinality(InboxHits(a, id)) + SumOver(S \ {a}, id)

InboxCopies(id) == SumOver(Actors, id)

\* The most recent call ran (it compiled) and named the operation op.
LastRan(op) == last.op = op /\ last.diags = {}

\* The element of the most recent call lies exactly once in the inbox of the
\* actor its handle names, and in no other inbox.
LastDeliveredOnce ==
  /\ last.dest.ptr \in Actors
  /\ Cardinality(InboxHits(last.dest.ptr, last.id)) = 1
  /\ InboxCopies(last.id) = 1

LastElement == inbox[last.dest.ptr][CHOOSE i \in InboxHits(last.dest.ptr, last.id) : TRUE]

\* C1: every send(D, P) to a live, non-null destination D puts exactly one
\* mailbox element holding P into D's inbound queue, with the calling actor as
\* its sender; and whatever other callers send meanwhile, the element of every
\* such call stays there exactly once (none is lost, none duplicated).
C1_SendDeliversExactlyOnce ==
  /\ (LastRan("send") /\ last.dest.ptr # Null /\ last.live) =>
       /\ LastDeliveredOnce
       /\ LastElement.payload = last.xs
       /\ LastElement.sender = last.caller
       /\ LastElement.op = "send"
  /\ \A id \in 1 .. ncalls : status[id] = "direct" =>
       InboxCopies(id) = 1 /\ TimerHits(id) = {}

\* Two callers have sent to the same live destination and both elements are in
\* its inbound queue.
C1_Witness ==
  /\ LastRan("send") /\ last.live
  /\ \E i, j \in DOMAIN inbox["t1"] :
       /\ i < j
       /\ inbox["t1"][i].op = "send" /\ inbox["t1"][j].op = "send"
       /\ inbox["t1"][i].sender # inbox["t1"][j].sender

\* C2 as stated: every anon_send(D, P), whatever D is, puts exactly one element
\* with an empty sender into D's inbound queue.
C2_AnonSendAnyDestination ==
  LastRan("anon_send") =>
    LastDeliveredOnce /\ LastElement.sender = None

\* C2, amended: every anon_send(D, P) to a live, non-null destination D puts
\* exactly one element holding P into D's inbound queue, and its sender is
\* empty: the receiver never learns who called.
C2_AnonSendLiveDestination ==
  (LastRan("anon_send") /\ last.dest.ptr # Null /\ last.live) =>
    /\ LastDeliveredOnce
    /\ LastElement.payload = last.xs
    /\ LastElement.sender = None
    /\ LastElement.sender # last.caller

\* An actor has anon_sent to a live destination.
C2_Witness ==
  /\ LastRan("anon_send") /\ last.live /\ last.caller \in Actors
  /\ InboxHits(last.dest.ptr, last.id) # {}

\* C3: a send, delayed_send or scheduled_send through a null handle changes
\* nothing: no inbox, not the clock's entries, no call left in progress; the
\* call is recorded as a no-op.
C3_NullDestinationIsNoop ==
  [][(ncalls' = ncalls + 1 /\ last'.id = ncalls' /\ last'.diags = {}
        /\ last'.op \in Ops /\ last'.dest.ptr = Null)
     => (/\ inbox' = inbox
         /\ timer' = timer
         /\ frame' = frame
         /\ firedLog' = firedLog
         /\ status' = [status EXCEPT ![ncalls'] = "noop"])]_vars

\* A scheduled_send through a null handle has run while the clock holds an
\* entry.
C3_Witness ==
  /\ LastRan("scheduled_send") /\ last.dest.ptr = Null
  /\ timer # <<>>
  /\ status[last.id] = "noop"

\* The call numbers of the entries the dispatcher took out of the clock.
Dispatched == {firedLog[k].id : k \in DOMAIN firedLog}

\* C4: the element of a delayed_send(D, rel, P) called at clock time t0 is never
\* in an inbound queue while the clock is before t0 + rel (due is t0 + rel).
C4_DelayedNeverEarly ==
  \A a \in Actors : \A i \in DOMAIN inbox[a] :
    inbox[a][i].op = "delayed_send" => inbox[a][i].due <= now

\* A delayed_send with a positive delay has waited in the clock and been
\* delivered.
C4_Witness ==
  \E i \in DOMAIN inbox["t1"] :
    /\ inbox["t1"][i].op = "delayed_send"
    /\ inbox["t1"][i].id \in Dispatched
    /\ inbox["t1"][i].due > 0

\* C5: a scheduled_send(D, T, P) with T <= now() is delivered at once: its
\* entry is never pending in the clock and never passes through the
\* dispatcher, and with D alive the element is in D's inbound queue when the
\* call returns.
C5_ScheduledPastIsImmediate ==
  (LastRan("scheduled_send") /\ last.dest.ptr # Null /\ last.timeout <= last.t0) =>
    /\ TimerHits(last.id) = {}
    /\ status[last.id] # "pending"
    /\ last.id \notin Dispatched
    /\ last.live => (LastDeliveredOnce /\ status[last.id] = "fired")

\* A scheduled_send for a time point strictly in the past has been delivered
\* while another entry waits in the clock.
C5_Witness ==
  /\ LastRan("scheduled_send") /\ last.live /\ last.timeout < last.t0
  /\ InboxHits("t1", last.id) # {}
  /\ timer # <<>>

\* C6: an entry that was pending when its destination terminated is never
\* delivered: its element is in no inbound queue, now or later; the entry
\* waits or has been discarded.
C6_DeadDestinationDiscards ==
  \A id \in doomed :
    /\ InboxCopies(id) = 0
    /\ status[id] \in {"pending", "discarded"}

\* The dispatcher has discarded an entry whose destination terminated while it
\* was pending.
C6_Witness ==
  \E id \in doomed : status[id] = "discarded" /\ id \in Dispatched

C8_FiredExactlyOnce ==
  \A id \in 1 .. ncalls :
    /\ status[id] = "fired" => (InboxCopies(id) = 1 /\ TimerHits(id) = {})
    /\ InboxCopies(id) + Cardinality(TimerHits(id)) <= 1

\* Entries inserted by two different callers have both fired.
C8_Witness ==
  \E i, j \in DOMAIN inbox["t1"] :
    /\ inbox["t1"][i].id \in Dispatched /\ inbox["t1"][j].id \in Dispatched
    /\ inbox["t1"][i].sender # inbox["t1"][j].sender

\* The accepted-input set of an interface, and the reply shapes it declares
\* for an input shape, read off the signature entries.
AcceptedInputs(sigs) == {sg.in : sg \in sigs.sigs}

Replies(sigs, xs) == {sg.out : sg \in {x \in sigs.sigs : x.in = xs}}

\* The most recent call site is a send, delayed_send or scheduled_send of a
\* statically typed caller to a statically typed handle.
LastTypedSite ==
  /\ last.op \in Ops
  /\ last.caller \in Actors
  /\ statically_typed(SignaturesOfActor(last.caller))
  /\ statically_typed(signatures_of_handle(last.dest.type))

LastDestSigs == signatures_of_handle(last.dest.type)

LastCallerSigs == SignaturesOfActor(last.caller)

\* Nothing of the most recent call site exists at run time.
GroupHits(g, id) == {i \in DOMAIN grouped[g] : grouped[g][i].id = id}

LastLeftNothing ==
  /\ status[last.id] = "rejected"
  /\ InboxCopies(last.id) = 0
  /\ TimerHits(last.id) = {}
  /\ \A g \in Groups : GroupHits(g, last.id) = {}
  /\ \A a \in Actors : \A f \in frame[a] : f.id # last.id

\* C9: between statically typed caller and destination, a send, delayed_send
\* or scheduled_send that compiles has a payload shape in the destination's
\* accepted-input set; for a shape outside it the call site is rejected with
\* "receiver does not accept given message" and no element is made, queued or
\* scheduled.
C9_ReceiverMustAccept ==
  LastTypedSite =>
    /\ last.diags = {} => last.xs \in AcceptedInputs(LastDestSigs)
    /\ last.xs \notin AcceptedInputs(LastDestSigs) =>
         (DiagNotAccepted \in last.diags /\ LastLeftNothing)

\* A statically typed actor's delayed_send of a shape its typed destination
\* does not accept has been rejected.
C9_Witness ==
  /\ LastTypedSite
  /\ last.op = "delayed_send" /\ last.caller = "t2" /\ last.dest.type = "typed_t1"
  /\ last.xs = "pong"
  /\ last.diags = {DiagNotAccepted}

\* C10: when a statically typed caller sends a shape whose entry at the
\* destination declares a non-void reply, the call site compiles only if the
\* caller's own accepted-input set holds that reply shape, and is otherwise
\* rejected with "this actor does not accept the response message"; nothing
\* else about the reply is checked, so an accepted payload whose reply is void
\* or accepted by the caller always compiles.
C10_CallerMustAcceptReply ==
  (LastTypedSite /\ last.xs \in AcceptedInputs(LastDestSigs)) =>
    LET replies == Replies(LastDestSigs, last.xs) \ {"void"}
        ok == replies \subseteq AcceptedInputs(LastCallerSigs)
    IN  /\ last.diags = {} <=> ok
        /\ ~ok => (last.diags = {DiagResponse} /\ LastLeftNothing)

\* A call site whose reply the caller does not accept has been rejected.
C10_Witness ==
  /\ LastTypedSite
  /\ last.caller = "t1" /\ last.dest.type = "typed_t2" /\ last.xs = "ping"
  /\ last.diags = {DiagResponse}

\* C11: a statically typed caller's send, delayed_send or scheduled_send toward
\* a dynamically typed destination (an actor handle, an address-only handle or
\* an untyped strong pointer) is rejected with the diagnostic that names the
\* rule, and nothing is handed over; anon_send toward it is not rejected.
DynamicDestTypes == {ht \in HandleTypes \ {"group"} : ~statically_typed(signatures_of_handle(ht))}

LastStaticToDynamic ==
  /\ last.op \in Ops
  /\ statically_typed(LastCallerSigs)
  /\ last.dest.type \in DynamicDestTypes

C11_StaticToDynamicRejected ==
  /\ LastStaticToDynamic =>
       /\ last.diags \cap {DiagDynamicDest, DiagStrongPtr} # {}
       /\ status[last.id] = "rejected"
       /\ LastLeftNothing
  /\ (last.op = "anon_send" /\ statically_typed(LastCallerSigs)
        /\ last.dest.type \in DynamicDestTypes) => last.diags = {}

C11_Witness ==
  /\ LastStaticToDynamic
  /\ last.caller = "t1"
  /\ last.op = "scheduled_send"
  /\ last.dest.type = "actor_addr"
  /\ DiagDynamicDest \in last.diags

\* C12: no send-family operation that accepts a group (anon_send, delayed_send,
\* scheduled_send, delayed_anon_send) hands a message to a group or to the
\* clock when the caller is statically typed.
GroupOps == {"anon_send", "delayed_send", "scheduled_send", "delayed_anon_send"}

C12_NoGroupSendFromTypedCaller ==
  (last.op \in GroupOps /\ last.dest.type = "group" /\ statically_typed(LastCallerSigs)) =>
    /\ \A g \in Groups : GroupHits(g, last.id) = {}
    /\ TimerHits(last.id) = {}

\* C13 as stated: whenever the caller or the destination of a send,
\* delayed_send or scheduled_send is dynamically typed, the call site compiles,
\* whatever the payload shape.
LastActorSite == last.op \in Ops /\ last.caller \in Actors /\ last.dest.type # "group"

C14_EnvelopeCarriesPriority ==
  /\ \A a \in Actors : \A i \in InboxHits(a, last.id) : inbox[a][i].mid.priority = last.P
  /\ \A i \in TimerHits(last.id) : timer[i].env.mid.priority = last.P
  /\ \A g \in Groups : \A i \in GroupHits(g, last.id) : grouped[g][i].mid.priority = last.P

\* C15 as stated: a delayed_send to t1 issued before t1 was constructed puts
\* its element into t1's inbox once t1 exists and the fire time has come.
NothingInFlight == timer = <<>> /\ \A a \in Actors : frame[a] = {}

LastBeforeConstruction == LastRan("delayed_send") /\ last.dest.ptr = Null

C15_LateDestinationReceives ==
  (LastBeforeConstruction /\ "t1" \in alive /\ now >= last.t0 + last.timeout
     /\ NothingInFlight) =>
    InboxHits("t1", last.id) # {}

\* C15: a delayed_send whose handle is null at the call, the destination not
\* having been constructed yet, is a no-op: it leaves no entry with the clock
\* and no element in any inbox, also after the destination has been
\* constructed and the fire time has passed; the destination must exist when
\* delayed_send is called.
C15_LateDestinationGetsNothing ==
  LastBeforeConstruction =>
    /\ status[last.id] = "noop"
    /\ InboxCopies(last.id) = 0
    /\ TimerHits(last.id) = {}
    /\ \A a \in Actors : \A f \in frame[a] : f.id # last.id

\* t1 was constructed after the call and the fire time has passed.
C15_Witness ==
  /\ LastBeforeConstruction
  /\ "t1" \in alive
  /\ last.timeout = 1
  /\ now >= last.t0 + last.timeout
  /\ NothingInFlight
  /\ inbox["t1"] = <<>>

\* C16: an entry the clock holds is pending and leaves that state only by
\* firing or by being discarded; either is final (the call's message is never
\* pending again), takes the entry out of the clock, and excludes the other: a
\* fired entry's element is in the destination's inbox, a discarded entry's
\* element is in none; and an entry is discarded only when its destination no
\* longer exists.
EntryStep(id) ==
  /\ status[id] = "pending" => status'[id] \in {"pending", "fired", "discarded"}
  /\ status[id] \in {"fired", "discarded"} => status'[id] = status[id]
  /\ status'[id] = "pending" => status[id] \in {"none", "pending"}
  /\ (status[id] = "pending" /\ status'[id] # "pending") =>
       /\ TimerHits(id)' = {}
       /\ Len(timer') = Len(timer) - 1
  /\ (status[id] = "pending" /\ status'[id] = "fired") => InboxCopies(id)' = 1
  /\ (status[id] = "pending" /\ status'[id] = "discarded") =>
       /\ InboxCopies(id)' = 0
       /\ \A i \in TimerHits(id) : timer[i].dest.ptr \notin alive

C16_EntryStateMachine == [][\A id \in DOMAIN status : EntryStep(id)]_vars

\* One pending entry has fired and another has been discarded.
C16_Witness ==
  \E i, j \in DOMAIN status :
    /\ status[i] = "fired" /\ status[j] = "discarded"
    /\ {i, j} \subseteq Dispatched
    /\ timer = <<>>

\* C17: nothing but the destination's death cancels an entry: an entry is
\* discarded only with its destination gone, and, the clock advancing and the
\* dispatcher running, every pending entry whose destination stays alive
\* eventually fires and its element is then in the destination's inbox.
C17_PendingEventuallyFires ==
  /\ [](\A id \in 1 .. MaxCalls : status[id] = "discarded" => "t1" \notin alive)
  /\ \A id \in 1 .. MaxCalls :
       (status[id] = "pending") ~>
         ((status[id] = "fired" /\ InboxHits("t1", id) # {}) \/ "t1" \notin alive)

\* An entry that had to wait for the clock has fired with its destination
\* alive.
C17_Witness ==
  \E k \in DOMAIN firedLog :
    /\ firedLog[k].due > 0
    /\ status[firedLog[k].id] = "fired"
    /\ InboxHits("t1", firedLog[k].id) # {}
    /\ "t1" \in alive

\* C18: once scheduled_send or delayed_send with a non-null handle has
\* returned, whoever looks at the clock afterwards finds the call's entry
\* pending (held by the clock), fired or discarded, never not yet scheduled;
\* and the clock holds exactly the pending entries, each once.
Observe(id) == IF TimerHits(id) # {} THEN "pending" ELSE status[id]

LastTimedReturned ==
  /\ last.op \in {"scheduled_send", "delayed_send"}
  /\ last.diags = {}
  /\ last.dest.ptr # Null

C18_InsertedIsObserved ==
  /\ LastTimedReturned => Observe(last.id) \in {"pending", "fired", "discarded"}
  /\ \A id \in DOMAIN status :
       /\ status[id] = "pending" <=> Cardinality(TimerHits(id)) = 1
       /\ status[id] # "pending" => TimerHits(id) = {}

\* delayed_send has returned and its entry is pending behind nothing, an
\* earlier entry having fired already.
C18_Witness ==
  /\ LastTimedReturned
  /\ last.op = "delayed_send"
  /\ TimerHits(last.id) = {1}
  /\ Observe(last.id) = "pending"
  /\ Len(firedLog) = 1

\* C19: delayed_send(D, rel, P) called when the clock reads t0 does what
\* scheduled_send(D, t0 + rel, P) does: a pending entry of either has its fire
\* time equal to the time point asked for (t0 + rel for delayed_send), the
\* destination as a strong handle, and an element with the caller as sender,
\* priority P and no stages; and delayed_send delivers without an entry exactly
\* as a scheduled_send whose time point has passed, in particular always for
\* rel <= 0.
TimedEntry(c, due) ==
  [time |-> due, dest |-> [type |-> "strong_actor_ptr", ptr |-> c.dest.ptr],
   env |-> Stamp(make_mailbox_element(c.caller, make_message_id(c.P), no_stages, c.xs),
                 c.id, c.op, due)]

SameEntry(e, x) == e.time = x.time /\ e.dest = x.dest /\ e.env = x.env

LastImmediate == TimerHits(last.id) = {} /\ last.id \notin Dispatched

C19_DelayedIsScheduledAtNowPlusDelta ==
  /\ \A i \in DOMAIN timer : timer[i].time = timer[i].env.due
  /\ (LastRan("delayed_send") /\ last.dest.ptr # Null) =>
       /\ last.t0 <= now
       /\ \A i \in TimerHits(last.id) :
            SameEntry(timer[i], TimedEntry(last, last.t0 + last.timeout))
       /\ LastImmediate => last.t0 + last.timeout <= now
       /\ last.timeout <= 0 => (LastImmediate /\ status[last.id] \in {"fired", "discarded"})
  /\ (LastRan("scheduled_send") /\ last.dest.ptr # Null) =>
       /\ \A i \in TimerHits(last.id) : SameEntry(timer[i], TimedEntry(last, last.timeout))
       /\ LastImmediate => last.timeout <= now

\* A delayed_send called at time 1 with a relative timeout of 1 has left an
\* entry that fires at 2.
C19_Witness ==
  /\ LastRan("delayed_send")
  /\ last.t0 = 1 /\ last.timeout = 1
  /\ \E i \in TimerHits(last.id) : timer[i].time = 2

\* C20: every entry the clock holds for an actor names its destination by a
\* non-null strong handle to the actor the caller addressed, whatever handle
\* type the caller used (a typed handle or the address-only actor_addr), and
\* keeps that handle unchanged for as long as the clock holds the entry.
ActorEntries == {i \in DOMAIN timer : timer[i].dest.type # "group"}

HoldsStrong(e) == e.dest.type = "strong_actor_ptr" /\ e.dest.ptr \in Actors

EntryKept(id) ==
  \A i \in TimerHits(id) : \A j \in TimerHits(id)' : timer'[j].dest = timer[i].dest

C20_EntryHoldsStrongHandle ==
  /\ [](/\ \A i \in ActorEntries : HoldsStrong(timer[i])
        /\ (LastTimedReturned /\ last.dest.type # "group") =>
             \A i \in TimerHits(last.id) : timer[i].dest.ptr = last.dest.ptr)
  /\ [][\A id \in DOMAIN status : EntryKept(id)]_vars

\* The caller addressed t1 by an address-only handle and the clock holds the
\* entry with a strong one.
C20_Witness ==
  /\ LastTimedReturned
  /\ last.dest.type = "actor_addr"
  /\ \E i \in TimerHits(last.id) : HoldsStrong(timer[i]) /\ timer[i].dest.ptr = "t1"

====
